---- MODULE Spec2Model ----
(***************************************************************************)
(* A model of the GitHub review reporter of codecoach                      *)
(* (src/Provider/GitHub/GitHub.ts).  One call of report() is a chain of    *)
(* continuations separated by awaits; every call of the prService adapter  *)
(* is issued by a continuation and later resolved or rejected by the       *)
(* platform.  The instance fields of the reporter are shared by all        *)
(* invocations on it; the locals of an invocation are indexed by it.       *)
(***************************************************************************)
EXTENDS Integers, Sequences, FiniteSets, TLC

\* ------------------------------------------------------------------ bounds
MaxLogs == 2

\* --------------------------------------------------------------- mock data
mockCurrentUserId == 123456
mockNoteIdToBeDeleted == 6544321
otherUserId == 99

Invocations == {1, 2}
Shas == {"sha1", "sha2"}

\* LogType: one finding of the analyzer, with source, line, severity and msg.
\* The findings of mockData, and two more on the line of touchFileError
touchFileError == [source |-> "a.ts", line |-> 1, severity |-> "error", msg |-> "m"]
touchFileWarning == [source |-> "a.ts", line |-> 2, severity |-> "warning", msg |-> "m"]
untouchedError == [source |-> "b.ts", line |-> 1, severity |-> "error", msg |-> "m"]
untouchedWarning == [source |-> "b.ts", line |-> 2, severity |-> "warning", msg |-> "m"]
touchFileInfo == [source |-> "a.ts", line |-> 1, severity |-> "info", msg |-> "m"]
sameLineWarning == [source |-> "a.ts", line |-> 1, severity |-> "warning", msg |-> "m"]

Findings == {touchFileError, touchFileWarning, untouchedError, untouchedWarning,
             touchFileInfo, sameLineWarning}

RECURSIVE SeqsUpTo(_, _)
SeqsUpTo(S, n) ==
    IF n = 0 THEN {<<>>}
    ELSE LET shorter == SeqsUpTo(S, n - 1)
         IN  shorter \cup {Append(s, x) : s \in {t \in shorter : Len(t) = n - 1}, x \in S}

LogInputs == SeqsUpTo(Findings, MaxLogs)

\* Diff: one changed file with its changed lines
DiffInputs ==
    { <<>>,
      << [file |-> "a.ts", lines |-> {1}] >>,
      << [file |-> "a.ts", lines |-> {1, 2}] >>,
      << [file |-> "a.ts", lines |-> {1}], [file |-> "b.ts", lines |-> {2}] >>,
      << [file |-> "b.ts", lines |-> {1}], [file |-> "b.ts", lines |-> {2}] >> }

\* the comments a pull request may hold before the run; user is <<>> when the
\* platform reports no author, <<id>> otherwise
oldBody == [errors |-> 1, warnings |-> 0]
oldText == << <<"error", "old">> >>

mockNotes ==
    << [id |-> 1, user |-> <<mockCurrentUserId>>, system |-> TRUE, body |-> oldBody],
       [id |-> mockNoteIdToBeDeleted, user |-> <<mockCurrentUserId>>, system |-> FALSE,
        body |-> oldBody],
       [id |-> 3, user |-> <<otherUserId>>, system |-> FALSE, body |-> oldBody],
       [id |-> 4, user |-> <<>>, system |-> FALSE, body |-> oldBody] >>

mockReviews ==
    << [id |-> 11, user |-> <<mockCurrentUserId>>, commit |-> "sha0", file |-> "a.ts",
        line |-> 1, body |-> oldText],
       [id |-> 12, user |-> <<otherUserId>>, commit |-> "sha0", file |-> "a.ts",
        line |-> 2, body |-> oldText] >>

\* what the pull request holds when the reporter is constructed
InitialPlatforms ==
    { [comments |-> <<>>, reviews |-> <<>>],
      [comments |-> SubSeq(mockNotes, 1, 3), reviews |-> <<>>],
      [comments |-> mockNotes, reviews |-> mockReviews] }

\* ------------------------------------------------------------------ state
VARIABLES
    removeOldComment,   \* constructor argument
    commitId,           \* instance fields of the reporter
    touchedDiff,
    comments,
    nWarning,
    nError,
    pc,                 \* per invocation: the await the invocation is parked at
    logs,               \* per invocation: the argument of report
    userId,             \* per invocation: locals of removeExistingComments
    listedComments,
    listedReviews,
    result,             \* per invocation: <<>> or <<the returned boolean>>
    err,                \* per invocation: 0 or the call whose rejection was thrown
    calls,              \* every adapter call issued, in issue order
    pending,            \* the issued calls not yet settled (indices of calls)
    rejected,           \* the issued calls the platform has rejected
    fetched,            \* per invocation: what getLatestCommitSha and diff returned to it
    platComments,       \* the platform: top-level comments of the pull request
    platReviews         \* the platform: inline (review) comments

vars == <<removeOldComment, commitId, touchedDiff, comments, nWarning, nError,
          pc, logs, userId, listedComments, listedReviews, result, err,
          calls, pending, rejected, fetched, platComments, platReviews>>

fields == <<commitId, touchedDiff, comments, nWarning, nError>>
locals == <<userId, listedComments, listedReviews>>
platform == <<platComments, platReviews>>

Init ==
    /\ removeOldComment \in BOOLEAN
    /\ commitId = ""
    /\ touchedDiff = <<>>
    /\ comments = <<>>
    /\ nWarning = 0
    /\ nError = 0
    /\ pc = [i \in Invocations |-> "idle"]
    /\ logs = [i \in Invocations |-> <<>>]
    /\ userId = [i \in Invocations |-> <<>>]
    /\ listedComments = [i \in Invocations |-> <<>>]
    /\ listedReviews = [i \in Invocations |-> <<>>]
    /\ result = [i \in Invocations |-> <<>>]
    /\ err = [i \in Invocations |-> 0]
    /\ calls = <<>>
    /\ pending = {}
    /\ rejected = {}
    /\ fetched = [i \in Invocations |-> [sha |-> "", diff |-> <<>>]]
    /\ \E p \in InitialPlatforms : platComments = p.comments /\ platReviews = p.reviews

\* ------------------------------------------------- filter.util, commentUtil
\* onlySeverity(...severities)(log)
onlySeverity(severities, log) == log.severity \in severities

\* onlyIn(diffs)(log): the finding lies on a changed line of some diff entry
onlyIn(diffs, log) ==
    \E k \in 1..Len(diffs) : diffs[k].file = log.source /\ log.line \in diffs[k].lines

\* the text of one finding inside a comment (message with severity emoji)
createMessageWithEmoji(msg, severity) == <<severity, msg>>

initComment(log) ==
    [file |-> log.source, line |-> log.line, errors |-> 0, warnings |-> 0, text |-> <<>>]

updateComment(c, log) ==
    [c EXCEPT !.errors = @ + (IF log.severity = "error" THEN 1 ELSE 0),
              !.warnings = @ + (IF log.severity = "warning" THEN 1 ELSE 0),
              !.text = Append(@, createMessageWithEmoji(log.msg, log.severity))]

RECURSIVE groupInto(_, _)
groupInto(acc, ls) ==
    IF ls = <<>> THEN acc
    ELSE LET log == Head(ls)
             hit == {k \in 1..Len(acc) : acc[k].file = log.source /\ acc[k].line = log.line}
         IN  IF hit = {}
             THEN groupInto(Append(acc, updateComment(initComment(log), log)), Tail(ls))
             ELSE LET k == CHOOSE j \in hit : TRUE
                  IN  groupInto([acc EXCEPT ![k] = updateComment(@, log)], Tail(ls))

\* groupComments(logs): one Comment per (file, line), in first-seen order
groupComments(ls) == groupInto(<<>>, ls)

\* ------------------------------------------------------------ message.util
generateOverviewMessage(e, w) == [errors |-> e, warnings |-> w]
generateCommitDescription(e) == IF e > 0 THEN <<"errors", e>> ELSE <<"clean", 0>>

\* ------------------------------------------------- GitHub.ts, pure fragments
\* mutant: the filter on the diff is dropped
touchedFileLogAnyLine(ls, diffs) ==
    LET bySeverity(l) == onlySeverity({"error", "warning"}, l)
    IN  SelectSeq(ls, bySeverity)

\* mutant: only errors pass the severity filter
touchedFileLogErrorsOnly(ls, diffs) ==
    LET bySeverity(l) == onlySeverity({"error"}, l)
        byDiff(l) == onlyIn(diffs, l)
    IN  SelectSeq(SelectSeq(ls, bySeverity), byDiff)

\* setup: logs.filter(onlySeverity(error, warning)).filter(onlyIn(touchedDiff))
touchedFileLog(ls, diffs) ==
    LET bySeverity(l) == onlySeverity({"error", "warning"}, l)
        byDiff(l) == onlyIn(diffs, l)
    IN  SelectSeq(SelectSeq(ls, bySeverity), byDiff)

RECURSIVE sumErrors(_)
sumErrors(cs) == IF cs = <<>> THEN 0 ELSE Head(cs).errors + sumErrors(Tail(cs))

RECURSIVE sumWarnings(_)
sumWarnings(cs) == IF cs = <<>> THEN 0 ELSE Head(cs).warnings + sumWarnings(Tail(cs))

\* mutant: the status flips only from the second error on
commitStatusOfOffByOne(e) == IF e > 1 THEN "failure" ELSE "success"

\* setCommitStatus: nError > 0 ? failure : success
commitStatusOf(e) == IF e > 0 THEN "failure" ELSE "success"

\* mutant: the summary is posted for errors only
summaryNeededErrorsOnly(w, e) == e > 0

\* createSummaryComment: nWarning + nError > 0
summaryNeeded(w, e) == w + e > 0

\* mutant: every comment that has an author counts as the tool's own
authoredByAnyone(comment, uid) == comment.user # <<>>

\* removeExistingComments: comment.user?.id === userId
authoredBy(comment, uid) == comment.user = uid

\* mutant: find() instead of filter(): only the first own comment is selected
selfAuthoredFirstOnly(listed, uid) ==
    LET mine(c) == authoredBy(c, uid)
        own == SelectSeq(listed, mine)
    IN  IF own = <<>> THEN <<>> ELSE <<Head(own)>>

selfAuthored(listed, uid) ==
    LET mine(c) == authoredBy(c, uid) IN SelectSeq(listed, mine)

\* mutant: the value tells whether the run found an error
reportReturnHasErrors(e) == e > 0

\* mutant: the value tells whether the run found no error
reportReturnNoErrors(e) == e = 0

\* report: the value returned when no await threw
reportReturn(e) == TRUE

\* ------------------------------------------------------------ adapter calls
Call(i, op, arg) == [inv |-> i, op |-> op, arg |-> arg]
NoArg == <<>>

PendingOf(i) == {c \in pending : calls[c].inv = i}
PendingOp(op) == {c \in pending : calls[c].op = op}
After(n) == {Len(calls) + k : k \in 1..n}
Running(i) == pc[i] \notin {"idle", "done", "failed"}

\* the id the platform gives the comment created by call c
NewId(c) == 100 + c

\* mutant: the comments are posted last group first
reviewCallsReversed(i) ==
    [k \in 1..Len(comments) |->
        Call(i, "createReviewComment",
             [sha |-> commitId, text |-> comments[Len(comments) + 1 - k].text,
              file |-> comments[Len(comments) + 1 - k].file,
              line |-> comments[Len(comments) + 1 - k].line])]

\* mutant: the last comment is not posted
reviewCallsButLast(i) ==
    [k \in 1..(Len(comments) - 1) |->
        Call(i, "createReviewComment",
             [sha |-> commitId, text |-> comments[k].text,
              file |-> comments[k].file, line |-> comments[k].line])]

\* comments.map((c) => this.createReviewComment(c)): one call per comment, in order
reviewCalls(i) ==
    [k \in 1..Len(comments) |->
        Call(i, "createReviewComment",
             [sha |-> commitId, text |-> comments[k].text,
              file |-> comments[k].file, line |-> comments[k].line])]

\* the deletes of removeExistingComments, comments first, then reviews
deleteCalls(i) ==
    LET cs == selfAuthored(listedComments[i], userId[i])
        rs == selfAuthored(listedReviews[i], userId[i])
    IN  [k \in 1..Len(cs) |-> Call(i, "deleteComment", [id |-> cs[k].id])]
        \o [k \in 1..Len(rs) |-> Call(i, "deleteReviewComment", [id |-> rs[k].id])]

\* ----------------------------------------------------------------- actions
\* report(logs) is called: setup starts and awaits getLatestCommitSha
Report(i, ls) ==
    /\ pc[i] = "idle"
    /\ logs' = [logs EXCEPT ![i] = ls]
    /\ calls' = Append(calls, Call(i, "getLatestCommitSha", NoArg))
    /\ pending' = pending \cup After(1)
    /\ pc' = [pc EXCEPT ![i] = "sha"]
    /\ UNCHANGED <<rejected, fetched, removeOldComment, fields, locals, result, err, platform>>

\* mutant: the sha of an earlier run is kept
GetLatestCommitShaResolveCached(c, sha) ==
    /\ c \in PendingOp("getLatestCommitSha")
    /\ commitId' = IF commitId = "" THEN sha ELSE commitId
    /\ fetched' = [fetched EXCEPT ![calls[c].inv].sha = sha]
    /\ calls' = Append(calls, Call(calls[c].inv, "diff", NoArg))
    /\ pending' = (pending \ {c}) \cup After(1)
    /\ pc' = [pc EXCEPT ![calls[c].inv] = "diff"]
    /\ UNCHANGED <<rejected, removeOldComment, touchedDiff, comments, nWarning, nError, logs,
                   locals, result, err, platform>>

\* setup line 63 resumes with the sha and awaits diff
GetLatestCommitShaResolve(c, sha) ==
    /\ c \in PendingOp("getLatestCommitSha")
    /\ commitId' = sha
    /\ fetched' = [fetched EXCEPT ![calls[c].inv].sha = sha]
    /\ calls' = Append(calls, Call(calls[c].inv, "diff", NoArg))
    /\ pending' = (pending \ {c}) \cup After(1)
    /\ pc' = [pc EXCEPT ![calls[c].inv] = "diff"]
    /\ UNCHANGED <<rejected, removeOldComment, touchedDiff, comments, nWarning, nError, logs,
                   locals, result, err, platform>>

\* setup lines 64-72 resume with the diff: filter, group, count
DiffResolve(c, d) ==
    /\ c \in PendingOp("diff")
    /\ touchedDiff' = d
    /\ fetched' = [fetched EXCEPT ![calls[c].inv].diff = d]
    /\ comments' = groupComments(touchedFileLog(logs[calls[c].inv], d))
    /\ nError' = sumErrors(comments')
    /\ nWarning' = sumWarnings(comments')
    /\ pending' = pending \ {c}
    /\ pc' = [pc EXCEPT ![calls[c].inv] = "setup"]
    /\ UNCHANGED <<rejected, removeOldComment, commitId, logs, locals, result, err, calls, platform>>

\* mutant: the Clean step runs whatever the flag
cleanAlways == TRUE

\* mutant: the Clean step is skipped when there is nothing to post
cleanOnlyWithComments == removeOldComment /\ comments # <<>>

\* mutant: the Clean step never runs
cleanNever == FALSE

\* report line 28: if (this.removeOldComment)
cleanEnabled == removeOldComment

\* mutant: the Clean step lists the top-level comments twice
AfterSetupListsTwice(i) ==
    /\ pc[i] = "setup"
    /\ IF cleanEnabled
       THEN /\ calls' = calls \o << Call(i, "getCurrentUserId", NoArg),
                                    Call(i, "listAllComments", NoArg),
                                    Call(i, "listAllComments", NoArg),
                                    Call(i, "listAllReviewComments", NoArg) >>
            /\ pending' = pending \cup After(4)
            /\ pc' = [pc EXCEPT ![i] = "reads"]
       ELSE /\ calls' = calls \o reviewCalls(i)
            /\ pending' = pending \cup After(Len(reviewCalls(i)))
            /\ pc' = [pc EXCEPT ![i] = "posts"]
    /\ UNCHANGED <<rejected, fetched, removeOldComment, fields, logs, locals, result, err, platform>>

\* report lines 28-32 after setup returned
AfterSetup(i) ==
    /\ pc[i] = "setup"
    /\ IF cleanEnabled
       THEN /\ calls' = calls \o << Call(i, "getCurrentUserId", NoArg),
                                    Call(i, "listAllComments", NoArg),
                                    Call(i, "listAllReviewComments", NoArg) >>
            /\ pending' = pending \cup After(3)
            /\ pc' = [pc EXCEPT ![i] = "reads"]
       ELSE /\ calls' = calls \o reviewCalls(i)
            /\ pending' = pending \cup After(Len(reviewCalls(i)))
            /\ pc' = [pc EXCEPT ![i] = "posts"]
    /\ UNCHANGED <<rejected, fetched, removeOldComment, fields, logs, locals, result, err, platform>>

GetCurrentUserIdResolve(c) ==
    /\ c \in PendingOp("getCurrentUserId")
    /\ userId' = IF Running(calls[c].inv) THEN [userId EXCEPT ![calls[c].inv] = <<mockCurrentUserId>>] ELSE userId
    /\ pending' = pending \ {c}
    /\ UNCHANGED <<rejected, fetched, removeOldComment, fields, pc, logs, listedComments, listedReviews,
                   result, err, calls, platform>>

ListAllCommentsResolve(c) ==
    /\ c \in PendingOp("listAllComments")
    /\ listedComments' = IF Running(calls[c].inv) THEN [listedComments EXCEPT ![calls[c].inv] = platComments] ELSE listedComments
    /\ pending' = pending \ {c}
    /\ UNCHANGED <<rejected, fetched, removeOldComment, fields, pc, logs, userId, listedReviews,
                   result, err, calls, platform>>

ListAllReviewCommentsResolve(c) ==
    /\ c \in PendingOp("listAllReviewComments")
    /\ listedReviews' = IF Running(calls[c].inv) THEN [listedReviews EXCEPT ![calls[c].inv] = platReviews] ELSE listedReviews
    /\ pending' = pending \ {c}
    /\ UNCHANGED <<rejected, fetched, removeOldComment, fields, pc, logs, userId, listedComments,
                   result, err, calls, platform>>

\* (a read that settles after the Promise.all has rejected fills a slot nobody reads)

\* removeExistingComments lines 97-107: the three reads are in, the deletes go out
ReadsJoin(i) ==
    /\ pc[i] = "reads"
    /\ PendingOf(i) = {}
    /\ calls' = calls \o deleteCalls(i)
    /\ pending' = pending \cup After(Len(deleteCalls(i)))
    /\ pc' = [pc EXCEPT ![i] = "deletes"]
    /\ UNCHANGED <<rejected, fetched, removeOldComment, fields, logs, locals, result, err, platform>>

Without(list, id) == LET keep(x) == x.id # id IN SelectSeq(list, keep)

DeleteCommentResolve(c) ==
    /\ c \in PendingOp("deleteComment")
    /\ platComments' = Without(platComments, calls[c].arg.id)
    /\ pending' = pending \ {c}
    /\ UNCHANGED <<rejected, fetched, removeOldComment, fields, pc, logs, locals, result, err, calls,
                   platReviews>>

DeleteReviewCommentResolve(c) ==
    /\ c \in PendingOp("deleteReviewComment")
    /\ platReviews' = Without(platReviews, calls[c].arg.id)
    /\ pending' = pending \ {c}
    /\ UNCHANGED <<rejected, fetched, removeOldComment, fields, pc, logs, locals, result, err, calls,
                   platComments>>

\* report line 32 after removeExistingComments returned
DeletesJoin(i) ==
    /\ pc[i] = "deletes"
    /\ PendingOf(i) = {}
    /\ calls' = calls \o reviewCalls(i)
    /\ pending' = pending \cup After(Len(reviewCalls(i)))
    /\ pc' = [pc EXCEPT ![i] = "posts"]
    /\ UNCHANGED <<rejected, fetched, removeOldComment, fields, logs, locals, result, err, platform>>

CreateReviewCommentResolve(c) ==
    /\ c \in PendingOp("createReviewComment")
    /\ platReviews' = Append(platReviews,
            [id |-> NewId(c), user |-> <<mockCurrentUserId>>, commit |-> calls[c].arg.sha,
             file |-> calls[c].arg.file, line |-> calls[c].arg.line,
             body |-> calls[c].arg.text])
    /\ pending' = pending \ {c}
    /\ UNCHANGED <<rejected, fetched, removeOldComment, fields, pc, logs, locals, result, err, calls,
                   platComments>>

\* mutant: the Promise.all of the posts is not awaited
PostsJoinNoAwait(i) ==
    /\ pc[i] = "posts"
    /\ IF summaryNeeded(nWarning, nError)
       THEN /\ calls' = Append(calls, Call(i, "createComment",
                                [text |-> generateOverviewMessage(nError, nWarning)]))
            /\ pending' = pending \cup After(1)
       ELSE UNCHANGED <<calls, pending>>
    /\ pc' = [pc EXCEPT ![i] = "summary"]
    /\ UNCHANGED <<rejected, fetched, removeOldComment, fields, logs, locals, result, err,
                   platform>>

\* report line 33: every post is in, createSummaryComment runs
PostsJoin(i) ==
    /\ pc[i] = "posts"
    /\ PendingOf(i) = {}
    /\ IF summaryNeeded(nWarning, nError)
       THEN /\ calls' = Append(calls, Call(i, "createComment",
                                [text |-> generateOverviewMessage(nError, nWarning)]))
            /\ pending' = pending \cup After(1)
       ELSE UNCHANGED <<calls, pending>>
    /\ pc' = [pc EXCEPT ![i] = "summary"]
    /\ UNCHANGED <<rejected, fetched, removeOldComment, fields, logs, locals, result, err, platform>>

CreateCommentResolve(c) ==
    /\ c \in PendingOp("createComment")
    /\ platComments' = Append(platComments,
            [id |-> NewId(c), user |-> <<mockCurrentUserId>>, system |-> FALSE,
             body |-> calls[c].arg.text])
    /\ pending' = pending \ {c}
    /\ UNCHANGED <<rejected, fetched, removeOldComment, fields, pc, logs, locals, result, err, calls,
                   platReviews>>

\* mutant: a run with nothing to report returns without setting a status
SummaryJoinQuietWhenClean(i) ==
    /\ pc[i] = "summary"
    /\ PendingOf(i) = {}
    /\ IF summaryNeeded(nWarning, nError)
       THEN /\ calls' = Append(calls, Call(i, "setCommitStatus",
                               [sha |-> commitId, status |-> commitStatusOf(nError),
                                description |-> generateCommitDescription(nError)]))
            /\ pending' = pending \cup After(1)
            /\ pc' = [pc EXCEPT ![i] = "status"]
            /\ UNCHANGED result
       ELSE /\ pc' = [pc EXCEPT ![i] = "done"]
            /\ result' = [result EXCEPT ![i] = <<reportReturn(nError)>>]
            /\ UNCHANGED <<calls, pending>>
    /\ UNCHANGED <<rejected, fetched, removeOldComment, fields, logs, locals, err, platform>>

\* report line 34: createSummaryComment returned, setCommitStatus runs
SummaryJoin(i) ==
    /\ pc[i] = "summary"
    /\ PendingOf(i) = {}
    /\ calls' = Append(calls, Call(i, "setCommitStatus",
                        [sha |-> commitId, status |-> commitStatusOf(nError),
                         description |-> generateCommitDescription(nError)]))
    /\ pending' = pending \cup After(1)
    /\ pc' = [pc EXCEPT ![i] = "status"]
    /\ UNCHANGED <<rejected, fetched, removeOldComment, fields, logs, locals, result, err, platform>>

\* report lines 36-42: the status is set, report returns
SetCommitStatusResolve(c) ==
    /\ c \in PendingOp("setCommitStatus")
    /\ pending' = pending \ {c}
    /\ pc' = [pc EXCEPT ![calls[c].inv] = "done"]
    /\ result' = [result EXCEPT ![calls[c].inv] = <<reportReturn(nError)>>]
    /\ UNCHANGED <<rejected, fetched, removeOldComment, fields, logs, locals, err, calls, platform>>

\* mutant: the rejection is swallowed and the run goes on
RejectSwallowed(c) ==
    /\ c \in pending
    /\ pending' = pending \ {c}
    /\ rejected' = rejected \cup {c}
    /\ UNCHANGED <<pc, err, fetched, removeOldComment, fields, logs, locals, result, calls,
                   platform>>

\* mutant: a failing run takes back the inline comments it has created
RejectWithRollback(c) ==
    /\ c \in pending
    /\ pending' = pending \ {c}
    /\ rejected' = rejected \cup {c}
    /\ IF Running(calls[c].inv)
       THEN /\ pc' = [pc EXCEPT ![calls[c].inv] = "failed"]
            /\ err' = [err EXCEPT ![calls[c].inv] = c]
            /\ platReviews' = SelectSeq(platReviews,
                    LAMBDA x : \A d \in 1..Len(calls) :
                        calls[d].inv = calls[c].inv => x.id # NewId(d))
       ELSE UNCHANGED <<pc, err, platReviews>>
    /\ UNCHANGED <<fetched, removeOldComment, fields, logs, locals, result, calls, platComments>>

\* report lines 37-40: an adapter call rejects; the await (or the Promise.all) the
\* invocation is parked at throws, report logs and rethrows.  A call that rejects
\* after its invocation has already failed is dropped.
Reject(c) ==
    /\ c \in pending
    /\ pending' = pending \ {c}
    /\ rejected' = rejected \cup {c}
    /\ IF Running(calls[c].inv)
       THEN /\ pc' = [pc EXCEPT ![calls[c].inv] = "failed"]
            /\ err' = [err EXCEPT ![calls[c].inv] = c]
       ELSE UNCHANGED <<pc, err>>
    /\ UNCHANGED <<fetched, removeOldComment, fields, logs, locals, result, calls, platform>>

Settle(c) ==
    \/ \E sha \in Shas : GetLatestCommitShaResolve(c, sha)
    \/ \E d \in DiffInputs : DiffResolve(c, d)
    \/ GetCurrentUserIdResolve(c)
    \/ ListAllCommentsResolve(c)
    \/ ListAllReviewCommentsResolve(c)
    \/ DeleteCommentResolve(c)
    \/ DeleteReviewCommentResolve(c)
    \/ CreateReviewCommentResolve(c)
    \/ CreateCommentResolve(c)
    \/ SetCommitStatusResolve(c)
    \/ Reject(c)

Step(i) ==
    \/ \E ls \in LogInputs : Report(i, ls)
    \/ AfterSetup(i)
    \/ ReadsJoin(i)
    \/ DeletesJoin(i)
    \/ PostsJoin(i)
    \/ SummaryJoin(i)

\* one report call on the reporter
Next == Step(1) \/ \E c \in pending : Settle(c)

Spec == Init /\ [][Next]_vars

\* ------------------------------------------- two report calls on one reporter
\* the inputs of the runs with two invocations
FewLogs == {<<touchFileError>>, <<touchFileWarning>>}
FewDiffs == { << [file |-> "a.ts", lines |-> {1, 2}] >> }

\* a reporter constructed with the default removeOldComment = false
InitOverlap ==
    /\ Init
    /\ ~removeOldComment
    /\ platComments = <<>>

\* report is called twice on the reporter, the second call at any time
NextOverlap ==
    \/ \E i \in Invocations : \E ls \in FewLogs : Report(i, ls)
    \/ \E i \in Invocations : AfterSetup(i) \/ PostsJoin(i) \/ SummaryJoin(i)
    \/ \E c \in pending :
          \/ \E sha \in Shas : GetLatestCommitShaResolve(c, sha)
          \/ \E d \in FewDiffs : DiffResolve(c, d)
          \/ CreateReviewCommentResolve(c)
          \/ CreateCommentResolve(c)
          \/ SetCommitStatusResolve(c)
          \/ Reject(c)

SpecOverlap == InitOverlap /\ [][NextOverlap]_vars

\* ------------------------------------- report called again after it returned
RerunLogs == {<<>>, <<touchFileError>>, <<touchFileError, sameLineWarning>>,
              <<touchFileWarning, touchFileError>>}
RerunDiffs == { << [file |-> "a.ts", lines |-> {1}] >>,
                << [file |-> "a.ts", lines |-> {1, 2}] >> }

\* a reporter constructed with removeOldComment = true
InitRerun == Init /\ removeOldComment

\* report runs, and once it has returned it is called a second time
NextRerun ==
    \/ \E ls \in RerunLogs : Report(1, ls)
    \/ \E ls \in RerunLogs : pc[1] = "done" /\ Report(2, ls)
    \/ \E i \in Invocations :
          AfterSetup(i) \/ ReadsJoin(i) \/ DeletesJoin(i) \/ PostsJoin(i) \/ SummaryJoin(i)
    \/ \E c \in pending :
          \/ \E sha \in Shas : GetLatestCommitShaResolve(c, sha)
          \/ \E d \in RerunDiffs : DiffResolve(c, d)
          \/ GetCurrentUserIdResolve(c)
          \/ ListAllCommentsResolve(c)
          \/ ListAllReviewCommentsResolve(c)
          \/ DeleteCommentResolve(c)
          \/ DeleteReviewCommentResolve(c)
          \/ CreateReviewCommentResolve(c)
          \/ CreateCommentResolve(c)
          \/ SetCommitStatusResolve(c)
          \/ Reject(c)

SpecRerun == InitRerun /\ [][NextRerun]_vars

\* ---------------------------------------------------------------- claims
\* vocabulary of the claims, stated on the inputs and on the log of adapter calls
CallsOf(i, op) == {c \in 1..Len(calls) : calls[c].inv = i /\ calls[c].op = op}

Succeeded(i) == pc[i] = "done"

\* the findings of invocation i that are errors or warnings on a changed line
RetainedIdx(i) ==
    {k \in 1..Len(logs[i]) :
        /\ logs[i][k].severity \in {"error", "warning"}
        /\ \E e \in 1..Len(fetched[i].diff) :
              /\ fetched[i].diff[e].file = logs[i][k].source
              /\ logs[i][k].line \in fetched[i].diff[e].lines}

RetainedErrors(i) == Cardinality({k \in RetainedIdx(i) : logs[i][k].severity = "error"})
RetainedWarnings(i) == Cardinality({k \in RetainedIdx(i) : logs[i][k].severity = "warning"})
RetainedLocations(i) == {<<logs[i][k].source, logs[i][k].line>> : k \in RetainedIdx(i)}

\* C1: the status passed to setCommitStatus is failure iff at least one retained
\* finding is an error, and success otherwise
C1_StatusIffRetainedError ==
    \A i \in Invocations : \A c \in CallsOf(i, "setCommitStatus") :
        calls[c].arg.status = (IF RetainedErrors(i) > 0 THEN "failure" ELSE "success")

\* a completed run given one error on a changed line and one on an unchanged line
\* set the status failure
C1_Witness ==
    /\ Succeeded(1)
    /\ logs[1] = <<touchFileError, untouchedError>>
    /\ RetainedErrors(1) = 1
    /\ \E c \in CallsOf(1, "setCommitStatus") : calls[c].arg.status = "failure"

\* C2: a run that completes has posted the summary comment exactly once when it
\* retained an error or a warning, and not at all when it retained none
C2_SummaryExactlyOnce ==
    \A i \in Invocations :
        Succeeded(i) =>
            /\ Cardinality(CallsOf(i, "createComment"))
                 = (IF RetainedErrors(i) + RetainedWarnings(i) > 0 THEN 1 ELSE 0)
            /\ CallsOf(i, "createComment") \cap (pending \cup rejected) = {}

\* a completed run whose only retained finding is a warning posted its summary
C2_Witness ==
    /\ Succeeded(1)
    /\ RetainedErrors(1) = 0
    /\ RetainedWarnings(1) = 1
    /\ Cardinality(CallsOf(1, "createComment")) = 1

\* C3: a run that retains no finding issues no inline comment and no summary comment
C3_NothingRetainedNothingPosted ==
    \A i \in Invocations :
        RetainedIdx(i) = {} =>
            CallsOf(i, "createReviewComment") \cup CallsOf(i, "createComment") = {}

\* a run given an error and a warning, both on unchanged lines of a non-empty diff,
\* completed
C3_Witness ==
    /\ Succeeded(1)
    /\ logs[1] = <<untouchedError, untouchedWarning>>
    /\ fetched[1].diff # <<>>
    /\ RetainedIdx(1) = {}

\* C4: a run that completes has issued exactly one inline comment for each distinct
\* (file, line) of its retained findings and none for any other location
C4_OneInlinePerLocation ==
    \A i \in Invocations :
        Succeeded(i) =>
            /\ \A loc \in RetainedLocations(i) :
                  Cardinality({c \in CallsOf(i, "createReviewComment") :
                      <<calls[c].arg.file, calls[c].arg.line>> = loc}) = 1
            /\ \A c \in CallsOf(i, "createReviewComment") :
                  <<calls[c].arg.file, calls[c].arg.line>> \in RetainedLocations(i)
            /\ Cardinality(CallsOf(i, "createReviewComment"))
                 = Cardinality(RetainedLocations(i))

\* a completed run with two retained findings on one line posted one inline comment
C4_Witness ==
    /\ Succeeded(1)
    /\ Cardinality(RetainedIdx(1)) = 2
    /\ Cardinality(RetainedLocations(1)) = 1
    /\ Cardinality(CallsOf(1, "createReviewComment")) = 1

\* the Clean step of invocation i ran and its Promise.all of deletes resolved
CleanCompleted(i) ==
    /\ removeOldComment
    /\ \/ pc[i] \in {"posts", "summary", "status", "done"}
       \/ /\ pc[i] = "failed"
          /\ calls[err[i]].op \in {"createReviewComment", "createComment", "setCommitStatus"}

DeletesOf(i, op, id) == {c \in CallsOf(i, op) : calls[c].arg.id = id}
IdsOf(list) == {list[k].id : k \in 1..Len(list)}

\* C5: once the Clean step has completed, every listed top-level comment and every
\* listed review comment authored by the current user has had exactly one delete
\* issued (and resolved), and no delete was issued for any other comment
C5_OwnCommentsDeletedOnce ==
    \A i \in Invocations :
        CleanCompleted(i) =>
            /\ \A k \in 1..Len(listedComments[i]) :
                  LET n == listedComments[i][k]
                      D == DeletesOf(i, "deleteComment", n.id)
                  IN  /\ Cardinality(D) = (IF n.user = <<mockCurrentUserId>> THEN 1 ELSE 0)
                      /\ D \cap (pending \cup rejected) = {}
            /\ \A k \in 1..Len(listedReviews[i]) :
                  LET r == listedReviews[i][k]
                      D == DeletesOf(i, "deleteReviewComment", r.id)
                  IN  /\ Cardinality(D) = (IF r.user = <<mockCurrentUserId>> THEN 1 ELSE 0)
                      /\ D \cap (pending \cup rejected) = {}
            /\ \A c \in CallsOf(i, "deleteComment") :
                  calls[c].arg.id \in IdsOf(listedComments[i])
            /\ \A c \in CallsOf(i, "deleteReviewComment") :
                  calls[c].arg.id \in IdsOf(listedReviews[i])

\* the Clean step completed on a pull request holding own and foreign comments of
\* both kinds: three deletes were issued and the foreign comments are still there
C5_Witness ==
    /\ CleanCompleted(1)
    /\ listedComments[1] = mockNotes
    /\ listedReviews[1] = mockReviews
    /\ Cardinality(CallsOf(1, "deleteComment")) = 2
    /\ Cardinality(CallsOf(1, "deleteReviewComment")) = 1
    /\ IdsOf(platComments) \cap {1, mockNoteIdToBeDeleted, 3, 4} = {3, 4}

\* the scenario of C6: removal enabled, the pull request holds the notes 1 (own,
\* system), mockNoteIdToBeDeleted (own) and 3 (foreign) and no review comment
C6_Scenario(i) ==
    /\ CleanCompleted(i)
    /\ listedComments[i] = SubSeq(mockNotes, 1, 3)
    /\ listedReviews[i] = <<>>

DeletedIds(i) ==
    {calls[c].arg.id : c \in CallsOf(i, "deleteComment") \cup CallsOf(i, "deleteReviewComment")}

\* C6 as stated: in the scenario exactly one delete is issued, for
\* mockNoteIdToBeDeleted; the system-generated own comment is not deleted
C6_OnlyNonSystemDeleted ==
    \A i \in Invocations :
        C6_Scenario(i) =>
            /\ DeletedIds(i) = {mockNoteIdToBeDeleted}
            /\ Cardinality(CallsOf(i, "deleteComment")) = 1

\* C6 amended: in the scenario exactly two deletes are issued, one for each comment
\* of the current user (1 and mockNoteIdToBeDeleted), system-generated or not, and
\* none for comment 3
C6_BothOwnDeleted ==
    \A i \in Invocations :
        C6_Scenario(i) =>
            /\ DeletedIds(i) = {1, mockNoteIdToBeDeleted}
            /\ Cardinality(CallsOf(i, "deleteComment")) = 2
            /\ CallsOf(i, "deleteReviewComment") = {}

\* the scenario ran to the end of the Clean step and only comment 3 is left of the
\* three
C6_Witness ==
    /\ C6_Scenario(1)
    /\ IdsOf(platComments) \cap {1, mockNoteIdToBeDeleted, 3} = {3}

\* the comments of a list that no call of the log created
Preexisting(list) ==
    LET old(x) == \A c \in 1..Len(calls) : x.id # NewId(c) IN SelectSeq(list, old)

CleanOps == {"getCurrentUserId", "listAllComments", "listAllReviewComments",
             "deleteComment", "deleteReviewComment"}

\* C7: a reporter constructed with removeOldComment false never issues
\* getCurrentUserId, a listing or a delete, and no step of its runs changes the
\* comments the pull request held before
C7_NoCleanWithoutFlag ==
    /\ [](~removeOldComment => \A c \in 1..Len(calls) : calls[c].op \notin CleanOps)
    /\ [][~removeOldComment =>
            /\ Preexisting(platComments') = Preexisting(platComments)
            /\ Preexisting(platReviews') = Preexisting(platReviews)]_vars

\* a run without removal completed on a pull request holding own comments, posted a
\* summary and an inline comment, and all six earlier comments are still there
C7_Witness ==
    /\ ~removeOldComment
    /\ Succeeded(1)
    /\ Preexisting(platComments) = mockNotes
    /\ Preexisting(platReviews) = mockReviews
    /\ Len(platComments) = 5
    /\ Len(platReviews) = 3

\* C8 as stated: the boolean returned by report is true when the run retained no
\* error and false when it retained at least one
C8_ReturnTellsErrors ==
    \A i \in Invocations : Succeeded(i) => result[i] = <<RetainedErrors(i) = 0>>

\* C8 amended: the boolean returned by report is true whenever the run completes,
\* whether or not an error was retained
C8_ReturnsTrueWhateverErrors ==
    \A i \in Invocations :
        /\ Succeeded(i) => result[i] = <<TRUE>>
        /\ ~Succeeded(i) => result[i] = <<>>

\* a run that retained an error completed, set the status failure and returned true
C8_Witness ==
    /\ Succeeded(1)
    /\ RetainedErrors(1) > 0
    /\ result[1] = <<TRUE>>
    /\ \E c \in CallsOf(1, "setCommitStatus") : calls[c].arg.status = "failure"

\* the step of report an adapter call belongs to
StepOf(op) ==
    CASE op = "getLatestCommitSha" -> 1
      [] op = "diff" -> 2
      [] op \in {"getCurrentUserId", "listAllComments", "listAllReviewComments"} -> 3
      [] op \in {"deleteComment", "deleteReviewComment"} -> 4
      [] op = "createReviewComment" -> 5
      [] op = "createComment" -> 6
      [] op = "setCommitStatus" -> 7

AllCallsOf(i) == {c \in 1..Len(calls) : calls[c].inv = i}

\* what C9 says of every state
C9_State ==
    \A i \in Invocations :
        LET mine == AllCallsOf(i)
            bad == mine \cap rejected
        IN  /\ bad # {} <=> pc[i] = "failed"
            /\ pc[i] = "failed" =>
                  /\ err[i] \in bad
                  /\ result[i] = <<>>
                  /\ \A c \in mine : StepOf(calls[c].op) <= StepOf(calls[err[i]].op)
                  /\ \A c \in bad : StepOf(calls[c].op) = StepOf(calls[err[i]].op)
                  /\ calls[err[i]].op \in {"getLatestCommitSha", "diff"} =>
                        \A c \in mine : calls[c].op \in {"getLatestCommitSha", "diff"}
            /\ \A c, d \in mine :
                  /\ c < d => StepOf(calls[c].op) <= StepOf(calls[d].op)
                  /\ (c # d /\ calls[c].op = calls[d].op) => calls[c].arg # calls[d].arg
            /\ \A c \in mine :
                  /\ StepOf(calls[c].op) > 1 => CallsOf(i, "getLatestCommitSha") # {}
                  /\ StepOf(calls[c].op) > 2 => CallsOf(i, "diff") # {}
                  /\ (StepOf(calls[c].op) > 3 /\ removeOldComment) =>
                        /\ CallsOf(i, "getCurrentUserId") # {}
                        /\ CallsOf(i, "listAllComments") # {}
                        /\ CallsOf(i, "listAllReviewComments") # {}

\* what C9 says of every step: a failed run stays failed with the error it threw
\* and issues nothing more
C9_Step ==
    \A i \in Invocations :
        pc[i] = "failed" =>
            /\ pc'[i] = "failed"
            /\ err'[i] = err[i]
            /\ AllCallsOf(i)' = AllCallsOf(i)

\* C9: the first adapter call of a run to reject fails the run at once with its
\* error, and the error thrown never changes; the calls of a run are issued in step
\* order without gaps, none twice, and none of a step after the one that failed,
\* neither before nor after the failure; when getLatestCommitSha or diff fails there
\* is no delete, no post and no status
C9_FailFastPrefix == []C9_State /\ [][C9_Step]_vars

\* a run with removal deleted, then failed on an inline post of two: nothing of a
\* later step was issued although the other post has settled
C9_Witness ==
    /\ pc[1] = "failed"
    /\ calls[err[1]].op = "createReviewComment"
    /\ CallsOf(1, "deleteComment") # {}
    /\ Cardinality(CallsOf(1, "createReviewComment")) = 2
    /\ PendingOf(1) = {}
    /\ CallsOf(1, "createComment") \cup CallsOf(1, "setCommitStatus") = {}

\* the findings of ls at the positions idx, in input order, from position k on
RECURSIVE Pick(_, _, _)
Pick(ls, idx, k) ==
    IF k > Len(ls) THEN <<>>
    ELSE (IF k \in idx THEN <<ls[k]>> ELSE <<>>) \o Pick(ls, idx, k + 1)

\* the retained findings of invocation i in input order, and those at one location
Retained(i) == Pick(logs[i], RetainedIdx(i), 1)
RetainedAt(i, file, line) ==
    Pick(logs[i], {k \in RetainedIdx(i) : logs[i][k].source = file /\ logs[i][k].line = line}, 1)
TextOf(fs) == [k \in 1..Len(fs) |-> <<fs[k].severity, fs[k].msg>>]

\* setup of invocation i has run
SetupDone(i) ==
    /\ pc[i] \notin {"idle", "sha", "diff"}
    /\ CallsOf(i, "diff") # {}
    /\ CallsOf(i, "diff") \cap rejected = {}

\* C10: comments, counts and status of a run are built from exactly the input
\* findings that are errors or warnings on a line of the fetched diff, in input
\* order; no other finding shows in an inline comment, in the summary counts or in
\* the status, and an empty diff leaves nothing
C10_OnlyRetainedFindingsUsed ==
    \A i \in Invocations :
        /\ (SetupDone(i) /\ \A j \in Invocations \ {i} : pc[j] = "idle") =>
              /\ nError = RetainedErrors(i)
              /\ nWarning = RetainedWarnings(i)
              /\ {<<comments[k].file, comments[k].line>> : k \in 1..Len(comments)}
                    = RetainedLocations(i)
              /\ \A k \in 1..Len(comments) :
                    LET fs == RetainedAt(i, comments[k].file, comments[k].line)
                        errs(f) == f.severity = "error"
                    IN  /\ comments[k].text = TextOf(fs)
                        /\ comments[k].errors = Len(SelectSeq(fs, errs))
                        /\ comments[k].errors + comments[k].warnings = Len(fs)
              /\ fetched[i].diff = <<>> => comments = <<>>
        /\ \A c \in CallsOf(i, "createReviewComment") :
              /\ calls[c].arg.text = TextOf(RetainedAt(i, calls[c].arg.file, calls[c].arg.line))
              /\ calls[c].arg.text # <<>>
        /\ \A c \in CallsOf(i, "createComment") :
              calls[c].arg.text = [errors |-> RetainedErrors(i), warnings |-> RetainedWarnings(i)]
        /\ \A c \in CallsOf(i, "setCommitStatus") :
              /\ calls[c].arg.status = "failure" <=> RetainedErrors(i) > 0
              /\ calls[c].arg.description[2] = RetainedErrors(i)

\* a run given a warning on a changed line and an error on an unchanged one
\* completed with one inline comment, a summary of 0 errors and 1 warning, and the
\* status success
C10_Witness ==
    /\ Succeeded(1)
    /\ logs[1] = <<touchFileWarning, untouchedError>>
    /\ Retained(1) = <<touchFileWarning>>
    /\ Cardinality(CallsOf(1, "createReviewComment")) = 1
    /\ \E c \in CallsOf(1, "createComment") :
          calls[c].arg.text = [errors |-> 0, warnings |-> 1]
    /\ \E c \in CallsOf(1, "setCommitStatus") : calls[c].arg.status = "success"

\* C11: two report calls that overlap on one reporter do not interfere: every
\* inline comment, summary and status an invocation issues derives from its own
\* findings, its own fetched diff and its own fetched revision id, and a completed
\* invocation has posted an inline comment at each of its own retained locations
C11_NoInterference ==
    \A i \in Invocations :
        /\ \A c \in CallsOf(i, "createReviewComment") :
              /\ calls[c].arg.sha = fetched[i].sha
              /\ calls[c].arg.text # <<>>
              /\ calls[c].arg.text = TextOf(RetainedAt(i, calls[c].arg.file, calls[c].arg.line))
        /\ Succeeded(i) =>
              {<<calls[c].arg.file, calls[c].arg.line>> : c \in CallsOf(i, "createReviewComment")}
                 = RetainedLocations(i)
        /\ \A c \in CallsOf(i, "createComment") :
              calls[c].arg.text = [errors |-> RetainedErrors(i), warnings |-> RetainedWarnings(i)]
        /\ \A c \in CallsOf(i, "setCommitStatus") :
              /\ calls[c].arg.sha = fetched[i].sha
              /\ calls[c].arg.status = "failure" <=> RetainedErrors(i) > 0

\* the comments of a list the current user authored, and the others
Own(list) == LET mine(x) == x.user = <<mockCurrentUserId>> IN SelectSeq(list, mine)
Foreign(list) == LET theirs(x) == x.user # <<mockCurrentUserId>> IN SelectSeq(list, theirs)

\* what one successful run on the findings and the diff of invocation i leaves of
\* the tool: an inline comment per retained location, a summary if any is retained
ExpectedInline(i) ==
    {[file |-> loc[1], line |-> loc[2], body |-> TextOf(RetainedAt(i, loc[1], loc[2]))] :
        loc \in RetainedLocations(i)}
ExpectedSummary(i) ==
    IF RetainedErrors(i) + RetainedWarnings(i) > 0
    THEN {[errors |-> RetainedErrors(i), warnings |-> RetainedWarnings(i)]}
    ELSE {}

\* the platform holds of the tool exactly what a run of invocation i leaves
HoldsExactly(i) ==
    LET rs == Own(platReviews)
        cs == Own(platComments)
    IN  /\ {[file |-> rs[k].file, line |-> rs[k].line, body |-> rs[k].body] : k \in 1..Len(rs)}
             = ExpectedInline(i)
        /\ Len(rs) = Cardinality(ExpectedInline(i))
        /\ {cs[k].body : k \in 1..Len(cs)} = ExpectedSummary(i)
        /\ Len(cs) = Cardinality(ExpectedSummary(i))

SameInputs(i, j) == logs[i] = logs[j] /\ fetched[i].diff = fetched[j].diff

\* C12: with removeOldComment true, after one successful run the pull request holds
\* of the tool one inline comment per retained location and at most one summary,
\* and after a second successful run on the same findings and diff it holds the
\* same again; no step changes the comments of other users
C12_RerunIdempotent ==
    /\ [](removeOldComment =>
            /\ (Succeeded(1) /\ pc[2] = "idle") => HoldsExactly(1)
            /\ (Succeeded(1) /\ Succeeded(2) /\ SameInputs(1, 2)) =>
                  HoldsExactly(1) /\ HoldsExactly(2))
    /\ [][/\ Foreign(platComments') = Foreign(platComments)
          /\ Foreign(platReviews') = Foreign(platReviews)]_vars

\* a run that found an earlier summary and inline comment of the tool and a second
\* run on the same two findings both completed: one inline comment and one summary
\* of the tool are there, the second run's, beside the comments of others
C12_Witness ==
    /\ removeOldComment
    /\ Succeeded(1) /\ Succeeded(2) /\ SameInputs(1, 2)
    /\ logs[1] = <<touchFileError, sameLineWarning>>
    /\ listedComments[1] = mockNotes
    /\ listedReviews[1] = mockReviews
    /\ Len(Own(platReviews)) = 1
    /\ Len(Own(platComments)) = 1
    /\ Own(platComments)[1].id = NewId(Len(calls) - 1)
    /\ Len(Foreign(platComments)) = 2
    /\ Len(Foreign(platReviews)) = 1

\* C13: a run with removeOldComment true and no findings still issues the three
\* reads of the Clean step, once each, and once that step has completed every
\* listed comment of the current user is gone from the pull request; it never
\* issues an inline comment or a summary comment
C13_EmptyFindingsStillClean ==
    \A i \in Invocations :
        (removeOldComment /\ logs[i] = <<>>) =>
            /\ CallsOf(i, "createReviewComment") \cup CallsOf(i, "createComment") = {}
            /\ pc[i] \in {"posts", "summary", "status", "done"} =>
                  /\ \A op \in {"getCurrentUserId", "listAllComments", "listAllReviewComments"} :
                        Cardinality(CallsOf(i, op)) = 1
                  /\ Cardinality(CallsOf(i, "deleteComment"))
                        = Len(Own(listedComments[i]))
                  /\ Cardinality(CallsOf(i, "deleteReviewComment"))
                        = Len(Own(listedReviews[i]))
                  /\ Own(platComments) = <<>>
                  /\ Own(platReviews) = <<>>

\* a run without findings completed on a pull request that held two summaries and
\* an inline comment of the current user: three deletes, no post
C13_Witness ==
    /\ removeOldComment
    /\ logs[1] = <<>>
    /\ Succeeded(1)
    /\ listedComments[1] = mockNotes
    /\ listedReviews[1] = mockReviews
    /\ Cardinality(CallsOf(1, "deleteComment") \cup CallsOf(1, "deleteReviewComment")) = 3
    /\ Len(platComments) = 2
    /\ Len(platReviews) = 1

\* every call of the set has resolved
Resolved(S) == S \cap (pending \cup rejected) = {}

DeleteCallsOf(i) == CallsOf(i, "deleteComment") \cup CallsOf(i, "deleteReviewComment")
CleanCallsOf(i) == {c \in AllCallsOf(i) : calls[c].op \in CleanOps}

\* C14: within one invocation getLatestCommitSha has resolved before diff is
\* issued, both before any call of the Clean step, every delete before any inline
\* post, every inline post before the summary comment, and the summary comment
\* before the status call; the calls are logged in that order
C14_StepsStrictlyOrdered ==
    \A i \in Invocations :
        /\ CallsOf(i, "diff") # {} => Resolved(CallsOf(i, "getLatestCommitSha"))
        /\ CleanCallsOf(i) # {} =>
              Resolved(CallsOf(i, "getLatestCommitSha") \cup CallsOf(i, "diff"))
        /\ CallsOf(i, "createReviewComment") # {} =>
              Resolved(CleanCallsOf(i) \cup CallsOf(i, "diff"))
        /\ CallsOf(i, "createComment") # {} =>
              Resolved(DeleteCallsOf(i) \cup CallsOf(i, "createReviewComment"))
        /\ CallsOf(i, "setCommitStatus") # {} =>
              Resolved(DeleteCallsOf(i) \cup CallsOf(i, "createReviewComment")
                       \cup CallsOf(i, "createComment"))
        /\ \A c, d \in AllCallsOf(i) :
              StepOf(calls[c].op) < StepOf(calls[d].op) => c < d

\* the status call is out after three deletes, two inline posts and the summary
C14_Witness ==
    /\ pc[1] = "status"
    /\ Cardinality(DeleteCallsOf(1)) = 3
    /\ Cardinality(CallsOf(1, "createReviewComment")) = 2
    /\ Cardinality(CallsOf(1, "createComment")) = 1
    /\ Len(calls) = 12

BatchOps == {"deleteComment", "deleteReviewComment", "createReviewComment"}

\* the effect of the resolved call c is on the platform
EffectPresent(c, comms, revs) ==
    /\ calls[c].op = "deleteComment" => calls[c].arg.id \notin IdsOf(comms)
    /\ calls[c].op = "deleteReviewComment" => calls[c].arg.id \notin IdsOf(revs)
    /\ calls[c].op = "createReviewComment" => NewId(c) \in IdsOf(revs)

C15_State ==
    \A i \in Invocations :
        (pc[i] = "failed" /\ calls[err[i]].op \in BatchOps) =>
            /\ err[i] \in rejected
            /\ CallsOf(i, "createComment") \cup CallsOf(i, "setCommitStatus") = {}
            /\ Cardinality(DeleteCallsOf(i)) = Len(deleteCalls(i))
            /\ calls[err[i]].op = "createReviewComment" =>
                  Cardinality(CallsOf(i, "createReviewComment"))
                      = Cardinality(RetainedLocations(i))
            /\ \A c \in AllCallsOf(i) \ (pending \cup rejected) :
                  calls[c].op \in BatchOps => EffectPresent(c, platComments, platReviews)

C15_Step ==
    \A i \in Invocations :
        \A c \in PendingOf(i) :
            /\ (Running(i) /\ c \in rejected') =>
                  (pc'[i] = "failed" /\ err'[i] = c)
            /\ (pc[i] = "failed" /\ c \notin pending' /\ c \notin rejected'
                    /\ calls[c].op \in BatchOps) =>
                  EffectPresent(c, platComments', platReviews')

\* C15: the first delete or inline post of a batch to reject fails the run with its
\* error in that very step, while the rest of the batch, all of it issued, may be
\* in flight; a call of the batch that resolves, before or after the failure, has
\* its effect on the platform and keeps it; neither summary nor status is issued
C15_FailFastNoRollback == []C15_State /\ [][C15_Step]_vars

\* the run failed on one inline post of two; the other one is on the platform
C15_Witness ==
    /\ pc[1] = "failed"
    /\ calls[err[1]].op = "createReviewComment"
    /\ Cardinality(CallsOf(1, "createReviewComment")) = 2
    /\ Cardinality(CallsOf(1, "createReviewComment") \cap rejected) = 1
    /\ Cardinality({c \in CallsOf(1, "createReviewComment") :
                        NewId(c) \in IdsOf(platReviews)}) = 1
    /\ PendingOf(1) = {}
    /\ CallsOf(1, "createComment") \cup CallsOf(1, "setCommitStatus") = {}

\* the locations of the retained findings of invocation i, each at its first
\* occurrence, in input order
FirstSeenLocations(i) ==
    LET first == {k \in RetainedIdx(i) :
                    \A j \in RetainedIdx(i) :
                        (j < k) => (logs[i][j].source # logs[i][k].source
                                    \/ logs[i][j].line # logs[i][k].line)}
        fs == Pick(logs[i], first, 1)
    IN  [k \in 1..Len(fs) |-> <<fs[k].source, fs[k].line>>]

\* the locations of the createReviewComment calls of invocation i, in issue order
PostedLocations(i) ==
    LET isPost(x) == x.inv = i /\ x.op = "createReviewComment"
        ps == SelectSeq(calls, isPost)
    IN  [k \in 1..Len(ps) |-> <<ps[k].arg.file, ps[k].arg.line>>]

\* C16: once the inline posts of a run are issued, the n-th createReviewComment
\* call in issue order is for the n-th distinct location of the retained findings
\* in first-seen order
C16_PostsInFirstSeenOrder ==
    \A i \in Invocations :
        (pc[i] \in {"posts", "summary", "status", "done"}
            \/ CallsOf(i, "createReviewComment") # {}) =>
                PostedLocations(i) = FirstSeenLocations(i)

\* two posts issued for a.ts:2 then a.ts:1, the input order, and the second has
\* resolved while the first is still in flight
C16_Witness ==
    /\ pc[1] = "posts"
    /\ PostedLocations(1) = << <<"a.ts", 2>>, <<"a.ts", 1>> >>
    /\ \E c, d \in CallsOf(1, "createReviewComment") :
          c < d /\ c \in pending /\ d \notin pending /\ d \notin rejected

\* C17: report never returns false: an invocation that has ended has either
\* returned true, every adapter call it issued having resolved, or thrown the
\* error of one of its adapter calls that rejected, and then returned nothing
C17_NeverReturnsFalse ==
    \A i \in Invocations :
        /\ result[i] \in {<<>>, <<TRUE>>}
        /\ result[i] = <<TRUE>> =>
              /\ pc[i] = "done"
              /\ AllCallsOf(i) \cap (pending \cup rejected) = {}
        /\ (pc[i] # "idle" /\ ~Running(i)) =>
              \/ result[i] = <<TRUE>>
              \/ /\ pc[i] = "failed"
                 /\ result[i] = <<>>
                 /\ err[i] \in AllCallsOf(i) \cap rejected

\* a run with removal that retained an error and a warning has returned true
C17_Witness ==
    /\ removeOldComment
    /\ result[1] = <<TRUE>>
    /\ RetainedErrors(1) >= 1
    /\ RetainedWarnings(1) >= 1
    /\ DeleteCallsOf(1) # {}

IdentifyOps == {"getLatestCommitSha", "diff"}
ReadOps == IdentifyOps \cup {"getCurrentUserId", "listAllComments", "listAllReviewComments"}

\* C18: no read operation is ever called twice by one run; a run with removal
\* that completed has called getLatestCommitSha, diff, getCurrentUserId,
\* listAllComments and listAllReviewComments exactly once each, every one of them
\* resolved, and sha and diff were each fetched by the one call of setup
C18_EachReadOnce ==
    \A i \in Invocations :
        /\ \A op \in ReadOps : Cardinality(CallsOf(i, op)) <= 1
        /\ SetupDone(i) =>
              \A op \in IdentifyOps :
                  Cardinality(CallsOf(i, op)) = 1 /\ Resolved(CallsOf(i, op))
        /\ (removeOldComment /\ Succeeded(i)) =>
              \A op \in ReadOps :
                  Cardinality(CallsOf(i, op)) = 1 /\ Resolved(CallsOf(i, op))

\* a run with removal completed after five reads, deletes, posts and a summary
C18_Witness ==
    /\ removeOldComment
    /\ Succeeded(1)
    /\ Cardinality({c \in AllCallsOf(1) : calls[c].op \in ReadOps}) = 5
    /\ DeleteCallsOf(1) # {}
    /\ CallsOf(1, "createReviewComment") # {}
    /\ CallsOf(1, "createComment") # {}

\* C19: a run calls setCommitStatus at most once and issues no adapter call after
\* it; a run that completed has called it exactly once, with status success when
\* it retained no finding; a run that failed on another call has not called it
C19_StatusOnceAndLast ==
    \A i \in Invocations :
        /\ Cardinality(CallsOf(i, "setCommitStatus")) <= 1
        /\ \A c \in CallsOf(i, "setCommitStatus") : \A d \in AllCallsOf(i) : d <= c
        /\ Succeeded(i) =>
              /\ Cardinality(CallsOf(i, "setCommitStatus")) = 1
              /\ Resolved(CallsOf(i, "setCommitStatus"))
              /\ RetainedIdx(i) = {} =>
                    \A c \in CallsOf(i, "setCommitStatus") : calls[c].arg.status = "success"
        /\ (pc[i] = "failed" /\ calls[err[i]].op # "setCommitStatus") =>
              CallsOf(i, "setCommitStatus") = {}

\* a run whose two findings were both filtered out completed: its third and last
\* adapter call set the status success
C19_Witness ==
    /\ ~removeOldComment
    /\ Succeeded(1)
    /\ Len(logs[1]) = 2
    /\ RetainedIdx(1) = {}
    /\ Len(calls) = 3
    /\ calls[3].op = "setCommitStatus"
    /\ calls[3].arg.status = "success"

\* C20: when the runs of a reporter do not overlap, every createReviewComment call
\* and the setCommitStatus call of a run are passed the sha that getLatestCommitSha
\* returned to that run
C20_OneShaPerRun ==
    \A i \in Invocations :
        \A c \in CallsOf(i, "createReviewComment") \cup CallsOf(i, "setCommitStatus") :
            /\ fetched[i].sha \in Shas
            /\ calls[c].arg.sha = fetched[i].sha

\* two runs one after the other, at different shas, each with an inline post and a
\* status
C20_Witness ==
    /\ Succeeded(1) /\ Succeeded(2)
    /\ fetched[1].sha # fetched[2].sha
    /\ \A i \in Invocations :
          /\ CallsOf(i, "createReviewComment") # {}
          /\ \A c \in CallsOf(i, "setCommitStatus") : calls[c].arg.sha = fetched[i].sha

====
